---- MODULE Spec2Model ----
(***************************************************************************)
(* Work-queue / idempotent-pipeline coordination of the slfp repository:   *)
(* the JSON record stores, the three dispatch drivers (reversed audit,     *)
(* question generation, validation), the merger, the report retrieval     *)
(* stages with their filters, the question extraction and the cleanup.     *)
(*                                                                         *)
(* A store file is modelled by its content as the readers see it:          *)
(*   kind = "missing"    no such file                                      *)
(*   kind = "empty"      zero bytes (what open(path, "w") leaves)          *)
(*   kind = "malformed"  text that json.load rejects (a partial dump)      *)
(*   kind = "list"       a JSON array of records, held in data             *)
(*   kind = "nonarray"   valid JSON that is not an array (object, string)  *)
(* A record carries the fields the code reads: question, filename, url and *)
(* the generated flag; Absent stands for a field the record does not have. *)
(* The timestamp field is never read by the code and is left out.          *)
(***************************************************************************)
EXTENDS Integers, Sequences, FiniteSets, TLC

\* ---------------------------------------------------------------- bounds
\* The batch cap of the dispatch drivers (25 in the source), scaled down so
\* that pending lists longer than the cap are explored.
Cap == 2
\* Longest question list (all_questions.json as loaded at import time).
MaxItems == 3
\* Most driver runs in one behaviour.
MaxRuns == 2
\* Most merge passes in one behaviour.
MaxMerges == 2
\* Most files a report directory holds when the cleanup starts.
MaxFiles == 2
\* Most clean_up calls in one behaviour.
MaxCleanups == 2
\* Most records in the store a report retrieval stage reads.
MaxUrls == 2
\* The cap of run_report.py and run_questions_generator_questions.py (500
\* in the source), scaled down below MaxUrls so that a run reaches it
\* with urls left.
ReportCap == 1
\* Longest text given to the report filters, in pieces.
MaxText == 3
\* Longest text given to get_question_content, in pieces.
MaxChars == 6

\* ------------------------------------------------------------ value sets
Absent == ""
QuestionTexts == {"q1", "q2"}
Urls == {"u1", "u2"}
\* The *.md names the audits directory may hold, in ascending path order.
AuditOrder == <<"audit_1.md", "audit_2.md", "audit_3.md">>
AuditNames == {AuditOrder[k] : k \in DOMAIN AuditOrder}
\* questions.questions_generator: a fixed list of distinct target files
\* (12 entries in the source, 3 here).
questions_generator == <<"lib.rs", "auction.rs", "utils.ts">>

COLLECTIONS == "collections.json"
REVERSED == "reversed_collections.json"
VALIDATED == "validated.json"
QUESTIONS == "questions.json"
StoreNames == {COLLECTIONS, REVERSED, VALIDATED, QUESTIONS}

Drivers == {"reversed", "generate", "validate"}
\* The report retrieval stages: run_report.py and run_validator_report.py.
ReportStages == {"report", "validated_report"}
\* The question extraction stage: run_questions_generator_questions.py.
GET_QUESTIONS == "get_questions"
\* What a behaviour exercises: one of the dispatch drivers, one of the
\* retrieval stages, the cleanup, or one of the text functions (the
\* report filters, get_question_content) on one text.
\* A call of mark_report_generated on its own.
MARK == "mark"
Pipelines ==
    Drivers \cup ReportStages
        \cup {GET_QUESTIONS, MARK, "clean_up", "filter", "extract"}

\* A text is the sequence of its pieces; the pieces are the literals the
\* report filters look for and "x" for any other run of characters.
Tokens == {"#", "No", "Vulnerability", "Invalid", "x"}
\* Report texts as the report stage leaves them in audits/ and validated/.
ReportBodies == {<<"x">>, <<"x", "x">>}
\* The texts a fetch may bring: nothing, a finding, and answers carrying
\* one of the literals.
FetchedTexts ==
    {<<>>, <<"x">>, <<"No", "Vulnerability">>, <<"#", "No", "Vulnerability">>,
     <<"x", "Invalid">>}

\* The pieces of a text given to get_question_content: a double quote, the
\* marker [File:, a line break, and "x" for any other run of characters
\* that holds no double quote and no white space.
QUOTE == "quote"
FILE_MARK == "[File:"
NEWLINE == "newline"
Chars == {QUOTE, FILE_MARK, NEWLINE, "x"}

\* audit_<n>.md for n = 1, 2, ...: the name the report stage gives its
\* n-th report.
ReportNames ==
    AuditOrder \o <<"audit_4.md", "audit_5.md", "audit_6.md", "audit_7.md",
                    "audit_8.md", "audit_9.md", "audit_10.md", "audit_11.md",
                    "audit_12.md">>
\* Names a report directory may hold when a retrieval stage starts: two
\* numbered reports with a gap, a name whose number does not parse, and a
\* name without the audit_ prefix.
ReportDirNames == {"audit_1.md", "audit_3.md", "audit_x.md", "notes.md"}

\* ------------------------------------------------------------- file kinds
Missing == [kind |-> "missing", data |-> <<>>]
EmptyFile == [kind |-> "empty", data |-> <<>>]
Malformed == [kind |-> "malformed", data |-> <<>>]
ListFile(recs) == [kind |-> "list", data |-> recs]
NotArray == [kind |-> "nonarray", data |-> <<>>]

\* The record appended by save_to_collections / save_to_questions.
QuestionRecord(q, u) ==
    [question |-> q, filename |-> Absent, url |-> u, generated |-> FALSE]
\* The record appended by save_to_validated.
ValidationRecord(fn, u) ==
    [question |-> Absent, filename |-> fn, url |-> u, generated |-> FALSE]

\* A report directory: whether it exists, and the content of each regular
\* file in it by name.
NoDir == [exists |-> FALSE, body |-> [n \in {} |-> <<>>]]
Dir(body) == [exists |-> TRUE, body |-> body]
Files(dir) == DOMAIN dir.body

\* ---------------------------------------------------------------- helpers
Range(s) == {s[k] : k \in DOMAIN s}
Reverse(s) == [k \in 1..Len(s) |-> s[Len(s) + 1 - k]]
IsPrefix(s, t) == Len(s) <= Len(t) /\ SubSeq(t, 1, Len(s)) = s
SeqsUpTo(S, n) == UNION {[1..k -> S] : k \in 0..n}

\* get_audits_reports: sorted(audits_dir.glob("*.md")), names ascending.
get_audits_reports(dir) == SelectSeq(AuditOrder, LAMBDA n : n \in dir)

\* ------------------------------------------------------------------ state
VARIABLES
    fs,              \* store name -> file content
    questions,       \* questions.questions, loaded from all_questions.json
    audits,          \* names of the *.md files in audits/
    pc,              \* "idle", "loop", "ask" (inside ask_question), "dump"
    drv,             \* the driver script this behaviour exercises
    items,           \* the list the driver loop iterates
    idx,             \* 1-based position of the loop in items
    counter,         \* the driver's counter
    processed,       \* the driver's set of processed identity keys
    skipped,         \* the driver's skipped count
    processed_count, \* the driver's "newly processed" count
    pendingData,     \* the array json.dump is writing
    runs,            \* driver runs started so far
    merges,          \* merge passes so far
    startFs,         \* history: fs when the current/last run started
    dispatched,      \* history: items handed to ask_question in this run
    outcomes,        \* history: "ok"/"fail"/"unsaved" per ask_question
    visited,         \* history: loop iterations begun in this run
    botFailed,       \* history: items whose bot construction raised
    preSave,         \* history: the store file as the last save_to_* found it
    ended,           \* history: "none", "running", "normal", "error", "killed"
    lastOp,          \* history: the last completed operation
    prevCollections, \* history: collections.json before the last merge
    added_count,     \* added_count of the last merge
    disk,            \* the report directories audits/ and validated/
    cleanLog,        \* history: how each clean_up call ended
    prevDisk,        \* history: disk before the last clean_up / get_report
    lastFetch,       \* history: url and text of the last get_report / mark
    text,            \* the text a text function is applied to
    verdict,         \* what the two report filters say of text
    extracted,       \* what get_question_content returns for text
    sessions,        \* browser sessions the run opened and has not quit
    summary          \* TRUE once the run has printed its summary lines

vars == <<fs, questions, audits, pc, drv, items, idx, counter, processed,
          skipped, processed_count, pendingData, runs, merges, startFs,
          dispatched, outcomes, visited, botFailed, preSave, ended, lastOp,
          prevCollections, added_count, disk, cleanLog, prevDisk, lastFetch,
          text, verdict, extracted, sessions, summary>>

loopVars == <<items, idx, counter, processed, skipped, processed_count>>
histVars == <<visited, botFailed>>
mergeVars == <<merges, prevCollections, added_count>>
inputVars == <<questions, audits>>
textVars == <<text, verdict, extracted>>
stageVars == <<disk, cleanLog, prevDisk, lastFetch, textVars>>
sessionVars == <<sessions, summary>>
runVars == <<loopVars, pendingData, runs, startFs, dispatched, outcomes,
             histVars, preSave, ended, sessionVars>>

\* The store a driver appends to.
OwningStore(d) ==
    CASE d = "reversed" -> REVERSED
      [] d = "generate" -> QUESTIONS
      [] d = "validate" -> VALIDATED

\* ----------------------------------------------------- idempotency tracker
\* Mutant of load_processed_questions: the reversed store is left out.
load_processed_questions_SkipsReversed(F, files) ==
    UNION {IF F[n].kind = "list"
           THEN {r.question : r \in Range(F[n].data)}
           ELSE {} : n \in files \ {REVERSED}}

\* load_processed_questions: the question field of every record of every
\* named file that exists and parses; a file that is missing or fails to
\* parse contributes nothing.
load_processed_questions(F, files) ==
    UNION {IF F[n].kind = "list"
           THEN {r.question : r \in Range(F[n].data)}
           ELSE {} : n \in files}

\* Mutant of load_processed_reports: the set is built from the question
\* field, which validation records do not have.
load_processed_reports_WrongField(F) ==
    IF F[VALIDATED].kind = "list"
    THEN {r.question : r \in {x \in Range(F[VALIDATED].data) : x.filename # Absent}}
    ELSE {}

\* run_validator.load_processed_reports: the filename of every record of
\* validated.json that has one.
load_processed_reports(F) ==
    IF F[VALIDATED].kind = "list"
    THEN {r.filename : r \in {x \in Range(F[VALIDATED].data) : x.filename # Absent}}
    ELSE {}

\* Mutant of LoadProcessed: the driver starts from the empty set.
LoadProcessed_Nothing(d, F) == {}

\* The processed set a driver builds before its loop.
LoadProcessed(d, F) ==
    CASE d = "reversed" -> load_processed_questions(F, {COLLECTIONS, REVERSED})
      [] d = "generate" -> load_processed_questions(F, {QUESTIONS})
      [] d = "validate" -> load_processed_reports(F)

\* The list a driver iterates.
DriverItems(d) ==
    CASE d = "reversed" -> Reverse(questions)
      [] d = "generate" -> questions_generator
      [] d = "validate" -> get_audits_reports(audits)

\* ------------------------------------------------------------ record store
\* Mutant of LoadForAppend: the save starts from the empty array.
LoadForAppend_StartsFresh(f) == <<>>

\* The load at the head of save_to_collections / save_to_validated /
\* save_to_questions: a missing, empty or unparsable file reads as [].
LoadForAppend(f) == IF f.kind = "list" THEN f.data ELSE <<>>

\* The record a driver's ask_question appends.
NewRecord(d, item, u) ==
    IF d = "validate" THEN ValidationRecord(item, u) ELSE QuestionRecord(item, u)

\* The question lists explored: every list of at most MaxItems texts,
\* repeated texts included (the extraction keeps duplicates), up to renaming
\* of the texts (a non-empty list starts with "q1").
QuestionLists ==
    {s \in SeqsUpTo(QuestionTexts, MaxItems) : s = <<>> \/ s[1] = "q1"}

\* The audits directories explored: reports are numbered max + 1 from 1,
\* so the directory holds audit_1.md .. audit_n.md.
AuditDirs == {{AuditOrder[k] : k \in 1..n} : n \in 0..Len(AuditOrder)}

\* collections.json is rewritten in place (open(path, "w"), then json.dump)
\* by save_to_collections and mark_report_generated; a writer that was
\* interrupted leaves it holding an unparsable prefix (or nothing, which
\* json.load rejects in the same way).
InterruptedFiles == {Missing, Malformed}

\* The stores when the cleanup starts: absent, or each holding a record of
\* the stage that fills it.
FilledStores ==
    [n \in StoreNames |->
        ListFile(<<IF n = VALIDATED THEN ValidationRecord("audit_1.md", "u1")
                   ELSE QuestionRecord("q1", "u1")>>)]

\* The store a report retrieval stage reads and marks, and the directory
\* it writes its reports to.
ReportStore(d) ==
    CASE d = "report" -> COLLECTIONS
      [] d = "validated_report" -> VALIDATED
      [] d = GET_QUESTIONS -> QUESTIONS
ReportDir(d) == IF d = "report" THEN "audits" ELSE "validated"

\* The stores a report retrieval stage may find: up to MaxUrls records of
\* the stage before it, urls repeated or not, flags set or not (up to
\* renaming of the urls: the first record carries "u1").
UrlRecords(d) ==
    {[r EXCEPT !.generated = g] :
        r \in {NewRecord(CASE d = "report" -> "reversed"
                           [] d = "validated_report" -> "validate"
                           [] d = GET_QUESTIONS -> "generate",
                         CASE d = "report" -> "q1"
                           [] d = "validated_report" -> "audit_1.md"
                           [] d = GET_QUESTIONS -> questions_generator[1], u) :
                  u \in Urls},
        g \in BOOLEAN}
UrlRecordLists(d) ==
    {l \in SeqsUpTo(UrlRecords(d), MaxUrls) : l = <<>> \/ l[1].url = "u1"}

InitStores(d) ==
    CASE d = "reversed" ->
            {[n \in StoreNames |-> IF n = COLLECTIONS THEN c ELSE Missing] :
                c \in InterruptedFiles}
      [] d \in ReportStages \cup {GET_QUESTIONS} ->
            {[n \in StoreNames |->
                 IF n = ReportStore(d) THEN ListFile(l) ELSE Missing] :
                l \in UrlRecordLists(d)}
      [] d = "validate" ->
            {[n \in StoreNames |-> IF n = VALIDATED THEN c ELSE Missing] :
                c \in {Missing, NotArray}}
      [] d = MARK ->
            {[n \in StoreNames |-> IF n = COLLECTIONS THEN c ELSE Missing] :
                c \in InterruptedFiles \cup
                      {ListFile(l) : l \in UrlRecordLists("report")}}
      [] d = "clean_up" -> {[n \in StoreNames |-> Missing], FilledStores}
      [] OTHER -> {[n \in StoreNames |-> Missing]}

\* The report directories when the cleanup starts: each absent or holding
\* up to MaxFiles reports; a name may occur in both directories.
CleanUpNames == {AuditOrder[k] : k \in 1..MaxFiles}
CleanUpDisks ==
    {[audits |-> a, validated |-> v] :
        a \in {NoDir} \cup {Dir([n \in S |-> <<"x">>]) : S \in SUBSET CleanUpNames},
        v \in {NoDir} \cup
              {Dir(b) : b \in UNION {[S -> ReportBodies] : S \in SUBSET CleanUpNames}}}

\* The report directory when a retrieval stage starts: absent, or holding
\* up to MaxFiles of ReportDirNames.  The records of validated.json name
\* reports of audits/, so run_validator_report.py finds audits/ present.
ReportDirs ==
    {NoDir} \cup
    {Dir([n \in S |-> <<"x", "x">>]) :
        S \in {T \in SUBSET ReportDirNames : Cardinality(T) <= MaxFiles}}

InitDisks(d) ==
    CASE d = "validate" ->
            {[audits |-> Dir([n \in S |-> <<"x">>]), validated |-> NoDir] :
                S \in AuditDirs}
      [] d = "report" -> {[audits |-> a, validated |-> NoDir] : a \in ReportDirs}
      [] d = "validated_report" ->
            {[audits |-> Dir([n \in {"audit_1.md"} |-> <<"x">>]), validated |-> v] :
                v \in ReportDirs}
      [] d = "clean_up" -> CleanUpDisks
      [] OTHER -> {[audits |-> NoDir, validated |-> NoDir]}

\* The three dispatch drivers read and write disjoint stores (the reversed
\* driver collections.json and reversed_collections.json, the question
\* generator questions.json, the validator validated.json), so a behaviour
\* exercises one of them, chosen at the start, together with the input it
\* iterates; the merger belongs to the reversed-audit pipeline.
Init ==
    /\ drv \in Pipelines
    /\ fs \in InitStores(drv)
    /\ questions \in CASE drv = "reversed" -> QuestionLists
                      [] drv = "clean_up" -> {<<"q1">>}
                      [] OTHER -> {<<>>}
    /\ disk \in InitDisks(drv)
    /\ audits = Files(disk.audits)
    /\ cleanLog = <<>>
    /\ prevDisk = disk
    /\ lastFetch = [url |-> Absent, text |-> <<>>, failed |-> FALSE]
    /\ text \in CASE drv = "filter" -> SeqsUpTo(Tokens, MaxText)
                 [] drv = "extract" -> SeqsUpTo(Chars, MaxChars)
                 [] OTHER -> {<<>>}
    /\ verdict = [done |-> FALSE, primary |-> FALSE, validated |-> FALSE]
    /\ extracted = [done |-> FALSE, items |-> <<>>]
    /\ pc = "idle"
    /\ items = <<>>
    /\ idx = 1
    /\ counter = 0
    /\ processed = {}
    /\ skipped = 0
    /\ processed_count = 0
    /\ pendingData = <<>>
    /\ runs = 0
    /\ merges = 0
    /\ startFs = fs
    /\ dispatched = <<>>
    /\ outcomes = <<>>
    /\ visited = 0
    /\ botFailed = <<>>
    /\ preSave = Missing
    /\ ended = "none"
    /\ lastOp = "init"
    /\ prevCollections = Missing
    /\ added_count = 0
    /\ sessions = 0
    /\ summary = FALSE

\* ---------------------------------------------------------- dispatch driver
\* The head of a driver script: load the processed set, reset the counters.
StartRun(d) ==
    /\ pc = "idle"
    /\ d = drv
    /\ runs < MaxRuns
    /\ runs' = runs + 1
    /\ UNCHANGED drv
    /\ processed' = LoadProcessed(d, fs)
    /\ items' = DriverItems(d)
    /\ idx' = 1
    /\ counter' = 0
    /\ skipped' = 0
    /\ processed_count' = 0
    /\ pc' = "loop"
    /\ startFs' = fs
    /\ dispatched' = <<>>
    /\ outcomes' = <<>>
    /\ visited' = 0
    /\ botFailed' = <<>>
    /\ ended' = "running"
    /\ lastOp' = "run"
    /\ sessions' = 0
    /\ summary' = FALSE
    /\ UNCHANGED <<fs, pendingData, inputVars, stageVars, preSave, mergeVars>>

\* The loop is exhausted: the summary is printed and the script ends.
EndOfList ==
    /\ pc = "loop"
    /\ idx > Len(items)
    /\ pc' = "idle"
    /\ ended' = "normal"
    /\ summary' = TRUE
    /\ UNCHANGED <<fs, drv, loopVars, pendingData, runs, startFs, dispatched,
                   outcomes, histVars, sessions, lastOp, inputVars, stageVars, preSave, mergeVars>>

\* "if question in processed: skipped += 1; continue".
Skip ==
    /\ pc = "loop"
    /\ idx <= Len(items)
    /\ items[idx] \in processed
    /\ skipped' = skipped + 1
    /\ idx' = idx + 1
    /\ visited' = visited + 1
    /\ UNCHANGED <<fs, pc, drv, items, counter, processed, processed_count,
                   pendingData, runs, startFs, dispatched, outcomes, botFailed,
                   sessionVars, ended, lastOp, inputVars, stageVars, preSave, mergeVars>>

\* The bot is constructed, which opens a browser session of its own, and
\* ask_question is entered for items[idx].  No script uses the bot in a
\* with statement, so __exit__ (the only caller of driver.quit) never runs.
Dispatch ==
    /\ pc = "loop"
    /\ idx <= Len(items)
    /\ items[idx] \notin processed
    /\ pc' = "ask"
    /\ dispatched' = Append(dispatched, items[idx])
    /\ visited' = visited + 1
    /\ sessions' = sessions + 1
    /\ UNCHANGED <<fs, drv, loopVars, pendingData, runs, startFs, outcomes,
                   botFailed, summary, ended, lastOp, inputVars, stageVars, preSave, mergeVars>>

\* Constructing the bot (or, in the validator, reading the audit file)
\* raises.  The validator's inner except prints and continues with the next
\* file; the other two drivers have only the top-level except, which prints
\* and ends the script.
BotInitFails ==
    /\ pc = "loop"
    /\ idx <= Len(items)
    /\ items[idx] \notin processed
    /\ IF drv = "validate"
       THEN /\ idx' = idx + 1
            /\ UNCHANGED <<pc, ended>>
       ELSE /\ pc' = "idle"
            /\ ended' = "error"
            /\ UNCHANGED idx
    /\ visited' = visited + 1
    /\ botFailed' = Append(botFailed, items[idx])
    /\ UNCHANGED <<fs, drv, items, counter, processed, skipped, processed_count,
                   pendingData, runs, startFs, dispatched, outcomes, lastOp,
                   sessionVars, inputVars, stageVars, preSave, mergeVars>>

\* Mutant of AfterAsk: the loop breaks only when the counter exceeds the cap.
AfterAsk_OffByOne ==
    /\ processed' = IF drv = "validate" THEN processed \cup {items[idx]}
                    ELSE processed
    /\ processed_count' = processed_count + 1
    /\ counter' = counter + 1
    /\ IF counter + 1 > Cap
       THEN /\ pc' = "idle"
            /\ ended' = "normal"
            /\ summary' = TRUE
            /\ UNCHANGED idx
       ELSE /\ pc' = "loop"
            /\ idx' = idx + 1
            /\ UNCHANGED <<ended, summary>>
    /\ UNCHANGED <<items, skipped>>

\* What the loop body does once ask_question has returned: the validator
\* adds the name to processed_files; every driver counts the item and
\* breaks when the counter reaches the cap.
AfterAsk ==
    /\ processed' = IF drv = "validate" THEN processed \cup {items[idx]}
                    ELSE processed
    /\ processed_count' = processed_count + 1
    /\ counter' = counter + 1
    /\ IF counter + 1 >= Cap
       THEN /\ pc' = "idle"
            /\ ended' = "normal"
            /\ summary' = TRUE
            /\ UNCHANGED idx
       ELSE /\ pc' = "loop"
            /\ idx' = idx + 1
            /\ UNCHANGED <<ended, summary>>
    /\ UNCHANGED <<items, skipped>>

\* Mutant of AgentFails: the except clause still records the item, with no
\* url.
AgentFails_PartialRecord ==
    /\ pc = "ask"
    /\ outcomes' = Append(outcomes, "fail")
    /\ fs' = [fs EXCEPT ![OwningStore(drv)] =
                 ListFile(Append(LoadForAppend(fs[OwningStore(drv)]),
                                 NewRecord(drv, items[idx], Absent)))]
    /\ AfterAsk
    /\ UNCHANGED <<drv, pendingData, runs, startFs, dispatched, histVars, sessions,
                   lastOp, inputVars, stageVars, preSave, mergeVars>>

\* ask_question raises before the save (timeout, element not found, ...):
\* its except clause prints and ask_question returns normally.
AgentFails ==
    /\ pc = "ask"
    /\ outcomes' = Append(outcomes, "fail")
    /\ AfterAsk
    /\ UNCHANGED <<fs, drv, pendingData, runs, startFs, dispatched, histVars, sessions,
                   lastOp, inputVars, stageVars, preSave, mergeVars>>

\* ask_question obtains the result url u and save_to_* loads the store,
\* appends the record and opens the file for writing, which truncates it.
AgentReturns(u) ==
    /\ pc = "ask"
    /\ fs[OwningStore(drv)].kind # "nonarray"
    /\ pendingData' = Append(LoadForAppend(fs[OwningStore(drv)]),
                             NewRecord(drv, items[idx], u))
    /\ fs' = [fs EXCEPT ![OwningStore(drv)] = EmptyFile]
    /\ preSave' = fs[OwningStore(drv)]
    /\ pc' = "dump"
    /\ UNCHANGED <<drv, loopVars, runs, startFs, dispatched, outcomes, histVars, sessionVars,
                   ended, lastOp, inputVars, stageVars, mergeVars>>

\* ask_question obtains the result url and save_to_* loads a store that
\* holds valid JSON other than an array: json.loads returns the object or
\* string, data.append raises AttributeError, which save_to_* does not
\* catch; the except clause of ask_question prints it and ask_question
\* returns normally.  Nothing is written.
SaveRaises ==
    /\ pc = "ask"
    /\ fs[OwningStore(drv)].kind = "nonarray"
    /\ outcomes' = Append(outcomes, "unsaved")
    /\ AfterAsk
    /\ UNCHANGED <<fs, drv, pendingData, runs, startFs, dispatched, histVars,
                   sessions, lastOp, inputVars, stageVars, preSave, mergeVars>>

\* Mutant of Dump: the file was opened in append mode, so the dump lands
\* after whatever the file held and only a file that held nothing parses.
Dump_AppendMode ==
    /\ pc = "dump"
    /\ fs' = [fs EXCEPT ![OwningStore(drv)] =
                 IF preSave.kind \in {"missing", "empty"}
                 THEN ListFile(pendingData) ELSE Malformed]
    /\ pendingData' = <<>>
    /\ outcomes' = Append(outcomes, "ok")
    /\ AfterAsk
    /\ UNCHANGED <<drv, runs, startFs, dispatched, histVars, sessions, lastOp, inputVars, stageVars,
                   preSave, mergeVars>>

\* json.dump completes and the file is closed; the loop body goes on.
Dump ==
    /\ pc = "dump"
    /\ fs' = [fs EXCEPT ![OwningStore(drv)] = ListFile(pendingData)]
    /\ pendingData' = <<>>
    /\ outcomes' = Append(outcomes, "ok")
    /\ AfterAsk
    /\ UNCHANGED <<drv, runs, startFs, dispatched, histVars, sessions, lastOp, inputVars, stageVars, preSave,
                   mergeVars>>

\* The process is killed from outside.  During the dump the file holds
\* whatever reached the disk: nothing, or an unparsable prefix.
Kill ==
    /\ pc \in {"loop", "ask", "dump"}
    /\ pc' = "idle"
    /\ ended' = "killed"
    /\ pendingData' = <<>>
    /\ IF pc = "dump"
       THEN \E f \in {EmptyFile, Malformed} :
                fs' = [fs EXCEPT ![OwningStore(drv)] = f]
       ELSE UNCHANGED fs
    /\ UNCHANGED <<drv, loopVars, runs, startFs, dispatched, outcomes, histVars, sessionVars,
                   lastOp, inputVars, stageVars, preSave, mergeVars>>

\* ------------------------------------------------------------------ merger
\* Mutant of merge_identifier: the question is tried before the url.
merge_identifier_QuestionFirst(item) ==
    IF item.question # Absent THEN item.question
    ELSE IF item.url # Absent THEN item.url
    ELSE item.filename

\* item.get("url") or item.get("question") or item.get("filename"):
\* the first non-empty of the three, Absent when none is.
merge_identifier(item) ==
    IF item.url # Absent THEN item.url
    ELSE IF item.question # Absent THEN item.question
    ELSE item.filename

\* existing_identifiers as built from collections_data.
ExistingIdentifiers(recs) ==
    {merge_identifier(r) : r \in Range(recs)} \ {Absent}

\* Mutant of MergeLoop: every keyed record is appended, seen or not.
RECURSIVE MergeLoop_NoSeenCheck(_, _, _, _, _)
MergeLoop_NoSeenCheck(collections_data, existing_identifiers, validated_data, k, added) ==
    IF k > Len(validated_data)
    THEN [data |-> collections_data, added_count |-> added]
    ELSE LET item == validated_data[k]
             identifier == merge_identifier(item)
         IN IF identifier # Absent
            THEN MergeLoop_NoSeenCheck(Append(collections_data, item),
                                       existing_identifiers \cup {identifier},
                                       validated_data, k + 1, added + 1)
            ELSE MergeLoop_NoSeenCheck(collections_data, existing_identifiers,
                                       validated_data, k + 1, added)

\* The merge loop over validated_data[k..]: returns the final
\* collections_data and added_count.
RECURSIVE MergeLoop(_, _, _, _, _)
MergeLoop(collections_data, existing_identifiers, validated_data, k, added) ==
    IF k > Len(validated_data)
    THEN [data |-> collections_data, added_count |-> added]
    ELSE LET item == validated_data[k]
             identifier == merge_identifier(item)
         IN IF identifier # Absent /\ identifier \notin existing_identifiers
            THEN MergeLoop(Append(collections_data, item),
                           existing_identifiers \cup {identifier},
                           validated_data, k + 1, added + 1)
            ELSE MergeLoop(collections_data, existing_identifiers,
                           validated_data, k + 1, added)

\* Mutant of merge_validated_into_collections: the merged records are moved,
\* reversed_collections.json is emptied after a successful merge.
merge_validated_into_collections_MovesRecords ==
    /\ pc = "idle"
    /\ drv = "reversed"
    /\ merges < MaxMerges
    /\ merges' = merges + 1
    /\ prevCollections' = fs[COLLECTIONS]
    /\ IF \/ fs[COLLECTIONS].kind \in {"empty", "malformed"}
          \/ fs[REVERSED].kind \in {"empty", "malformed"}
       THEN /\ lastOp' = "merge_error"
            /\ added_count' = 0
            /\ UNCHANGED fs
       ELSE IF fs[REVERSED].kind = "missing"
       THEN /\ lastOp' = "merge_return"
            /\ added_count' = 0
            /\ UNCHANGED fs
       ELSE LET collections_data == fs[COLLECTIONS].data
                m == MergeLoop(collections_data,
                               ExistingIdentifiers(collections_data),
                               fs[REVERSED].data, 1, 0)
            IN /\ fs' = [fs EXCEPT ![COLLECTIONS] = ListFile(m.data),
                                   ![REVERSED] = ListFile(<<>>)]
               /\ added_count' = m.added_count
               /\ lastOp' = "merge"
    /\ UNCHANGED <<pc, drv, loopVars, pendingData, runs, startFs, dispatched,
                   outcomes, histVars, sessionVars, ended, inputVars, stageVars, preSave>>

\* merge_validated_into_collections.  json.load raises on an empty or
\* unparsable file, and a missing reversed_collections.json returns early;
\* in both cases nothing is written.
merge_validated_into_collections ==
    /\ pc = "idle"
    /\ drv = "reversed"
    /\ merges < MaxMerges
    /\ merges' = merges + 1
    /\ prevCollections' = fs[COLLECTIONS]
    /\ IF fs[COLLECTIONS].kind \in {"empty", "malformed"}
       THEN /\ lastOp' = "merge_error"
            /\ added_count' = 0
            /\ UNCHANGED fs
       ELSE IF fs[REVERSED].kind = "missing"
       THEN /\ lastOp' = "merge_return"
            /\ added_count' = 0
            /\ UNCHANGED fs
       ELSE IF fs[REVERSED].kind \in {"empty", "malformed"}
       THEN /\ lastOp' = "merge_error"
            /\ added_count' = 0
            /\ UNCHANGED fs
       ELSE LET collections_data == fs[COLLECTIONS].data
                m == MergeLoop(collections_data,
                               ExistingIdentifiers(collections_data),
                               fs[REVERSED].data, 1, 0)
            IN /\ fs' = [fs EXCEPT ![COLLECTIONS] = ListFile(m.data)]
               /\ added_count' = m.added_count
               /\ lastOp' = "merge"
    /\ UNCHANGED <<pc, drv, loopVars, pendingData, runs, startFs, dispatched,
                   outcomes, histVars, sessionVars, ended, inputVars, stageVars, preSave>>

\* --------------------------------------------------------- report retrieval
\* Whether the pieces of lit occur in content as one run.
Contains(content, lit) ==
    \E k \in 0..(Len(content) - Len(lit)) :
        \A j \in 1..Len(lit) : content[k + j] = lit[j]

NoVulnerability == <<"No", "Vulnerability">>
HashNo == <<"#", "No">>
HashNoVulnerability == <<"#", "No", "Vulnerability">>
Invalid == <<"Invalid">>

\* Mutant of primary_filter: "Invalid" is not looked for.
primary_filter_NoInvalid(clipboard_content) ==
    /\ clipboard_content # <<>>
    /\ ~Contains(clipboard_content, NoVulnerability)
    /\ ~Contains(clipboard_content, HashNo)
    /\ ~Contains(clipboard_content, NoVulnerability)

\* The condition of GetReports.get_report.
primary_filter(clipboard_content) ==
    /\ clipboard_content # <<>>
    /\ ~Contains(clipboard_content, NoVulnerability)
    /\ ~Contains(clipboard_content, HashNo)
    /\ ~Contains(clipboard_content, Invalid)
    /\ ~Contains(clipboard_content, NoVulnerability)

\* Mutant of validated_filter: a "#" alone is enough to reject.
validated_filter_AnyHash(clipboard_content) ==
    /\ clipboard_content # <<>>
    /\ ~Contains(clipboard_content, <<"#">>)
    /\ ~Contains(clipboard_content, Invalid)

\* The condition of GetValidatedReports.get_report.
validated_filter(clipboard_content) ==
    /\ clipboard_content # <<>>
    /\ ~Contains(clipboard_content, HashNoVulnerability)
    /\ ~Contains(clipboard_content, HashNo)
    /\ ~Contains(clipboard_content, Invalid)

\* The two conditions evaluated on one text.
ApplyFilters ==
    /\ drv = "filter"
    /\ ~verdict.done
    /\ verdict' = [done |-> TRUE, primary |-> primary_filter(text),
                   validated |-> validated_filter(text)]
    /\ UNCHANGED <<fs, pc, drv, loopVars, pendingData, runs, startFs, dispatched,
                   outcomes, histVars, sessionVars, preSave, ended, lastOp, inputVars,
                   mergeVars, disk, cleanLog, prevDisk, lastFetch, text,
                   extracted>>

\* The filter of retrieval stage d.
StageFilter(d, clipboard_content) ==
    IF d = "report" THEN primary_filter(clipboard_content)
    ELSE validated_filter(clipboard_content)

\* int(f.replace("audit_", "").replace(".md", "")): the number of a name,
\* none when int raises ValueError.
NumberOf(f) == {k \in DOMAIN ReportNames : ReportNames[k] = f}

\* f.startswith("audit_") and f.endswith(".md").
IsAuditName(f) == f \in Range(ReportNames) \cup {"audit_x.md"}

Max(S) == CHOOSE m \in S : \A k \in S : k <= m

\* Mutant of get_next_report_number: the number of reports plus one.
get_next_report_number_CountsFiles(dir) ==
    IF ~dir.exists THEN 1
    ELSE LET existing_files == {f \in Files(dir) : IsAuditName(f)}
         IN Cardinality(existing_files) + 1

\* get_next_report_number on the directory dir.
get_next_report_number(dir) ==
    IF ~dir.exists THEN 1
    ELSE LET existing_files == {f \in Files(dir) : IsAuditName(f)}
             numbers == UNION {NumberOf(f) : f \in existing_files}
         IN IF existing_files = {} THEN 1
            ELSE IF numbers # {} THEN Max(numbers) + 1 ELSE 1

\* open(filename, "w") and f.write(content) in dir, which get_next_report_number
\* has created if it was absent.
WriteReport(dir, filename, content) ==
    Dir([n \in Files(dir) \cup {filename} |->
            IF n = filename THEN content ELSE dir.body[n]])

\* load_processed_reports of run_report.py / run_validator_report.py: no
\* url when audits/ is absent, else the urls flagged report_generated.
report_processed_urls(d, F, D) ==
    IF ~D.audits.exists \/ F[ReportStore(d)].kind # "list" THEN {}
    ELSE {r.url : r \in {x \in Range(F[ReportStore(d)].data) : x.generated}}

\* get_pending_urls: the non-empty urls of the store, in order, that are
\* not processed; none when the store is missing or fails to load.
get_pending_urls(d, F, D) ==
    IF F[ReportStore(d)].kind # "list" THEN <<>>
    ELSE LET data == F[ReportStore(d)].data
             urls == [k \in DOMAIN data |-> data[k].url]
         IN SelectSeq(urls, LAMBDA url :
                url # Absent /\ url \notin report_processed_urls(d, F, D))

\* Mutant of mark_report_generated: every record with that url is flagged.
mark_report_generated_AllMatches(f, url) ==
    IF url = Absent \/ f.kind # "list" THEN f
    ELSE ListFile([k \in DOMAIN f.data |->
                      IF f.data[k].url = url
                      THEN [f.data[k] EXCEPT !.generated = TRUE]
                      ELSE f.data[k]])

\* mark_report_generated(url) on file f: the first record with that url
\* gets the flag; an empty url returns at once, and a file that json.load
\* rejects (or that is missing) raises into the except clause.
mark_report_generated(f, url) ==
    IF url = Absent \/ f.kind # "list" THEN f
    ELSE LET hits == {k \in DOMAIN f.data : f.data[k].url = url}
         IN IF hits = {} THEN f
            ELSE LET first == CHOOSE k \in hits : \A j \in hits : k <= j
                 IN ListFile([f.data EXCEPT ![first].generated = TRUE])

\* mark_report_generated(url) called on collections.json with any url,
\* the empty one included; whatever happens inside is caught and printed.
MarkReportGenerated ==
    /\ pc = "idle"
    /\ drv = MARK
    /\ runs < MaxRuns
    /\ runs' = runs + 1
    /\ \E url \in Urls \cup {Absent} :
          /\ fs' = [fs EXCEPT ![COLLECTIONS] = mark_report_generated(@, url)]
          /\ lastFetch' = [url |-> url, text |-> <<>>, failed |-> FALSE]
    /\ lastOp' = "mark"
    /\ UNCHANGED <<pc, drv, loopVars, pendingData, startFs, dispatched, outcomes,
                   histVars, sessionVars, preSave, ended, inputVars, mergeVars,
                   disk, cleanLog, prevDisk, textVars>>

\* The head of run_report.main / run_validator_report: the pending urls
\* and, when there is one, the one GetReports object of the run.
StartReport(d) ==
    /\ pc = "idle"
    /\ d = drv
    /\ d \in ReportStages
    /\ runs < MaxRuns
    /\ runs' = runs + 1
    /\ processed' = report_processed_urls(d, fs, disk)
    /\ items' = get_pending_urls(d, fs, disk)
    /\ idx' = 1
    /\ counter' = 0
    /\ pc' = "fetch"
    /\ lastOp' = "report_run"
    /\ sessions' = IF items' = <<>> THEN 0 ELSE 1
    /\ summary' = FALSE
    /\ UNCHANGED <<fs, drv, skipped, processed_count, pendingData, startFs,
                   dispatched, outcomes, histVars, preSave, ended, inputVars,
                   mergeVars, stageVars>>

\* Mutant of get_report: the report file is written whatever the filter
\* says.
get_report_WritesAlways(url, clipboard_content) ==
    /\ LET dir == disk[ReportDir(drv)]
           n == get_next_report_number(dir)
       IN /\ n <= Len(ReportNames)
          /\ disk' = [disk EXCEPT ![ReportDir(drv)] =
                          WriteReport(dir, ReportNames[n], clipboard_content)]
    /\ fs' = [fs EXCEPT ![ReportStore(drv)] = mark_report_generated(@, url)]
    /\ lastFetch' = [url |-> url, text |-> clipboard_content, failed |-> FALSE]

\* get_report(url) when the fetch brought clipboard_content: a text the
\* filter accepts is written to the next numbered file; in both cases the
\* url is marked.
get_report(url, clipboard_content) ==
    /\ IF StageFilter(drv, clipboard_content)
       THEN LET dir == disk[ReportDir(drv)]
                n == get_next_report_number(dir)
            IN /\ n <= Len(ReportNames)
               /\ disk' = [disk EXCEPT ![ReportDir(drv)] =
                               WriteReport(dir, ReportNames[n], clipboard_content)]
       ELSE UNCHANGED disk
    /\ fs' = [fs EXCEPT ![ReportStore(drv)] = mark_report_generated(@, url)]
    /\ lastFetch' = [url |-> url, text |-> clipboard_content, failed |-> FALSE]

\* Mutant of get_report_fails: the url is marked although the fetch raised.
get_report_fails_MarksUrl(url) ==
    /\ lastFetch' = [url |-> url, text |-> <<>>, failed |-> TRUE]
    /\ fs' = [fs EXCEPT ![ReportStore(drv)] = mark_report_generated(@, url)]
    /\ UNCHANGED disk

\* get_report(url) when the fetch raises: the except clause prints, nothing
\* is written and the url is not marked.
get_report_fails(url) ==
    /\ lastFetch' = [url |-> url, text |-> <<>>, failed |-> TRUE]
    /\ UNCHANGED <<fs, disk>>

\* One iteration of the retrieval loop: get_report, then the counter and
\* (in run_report.py only) the break at the cap.
GetReport ==
    /\ pc = "fetch"
    /\ drv \in ReportStages
    /\ idx <= Len(items)
    /\ prevDisk' = disk
    /\ \/ get_report_fails(items[idx])
       \/ \E clipboard_content \in FetchedTexts :
             get_report(items[idx], clipboard_content)
    /\ counter' = counter + 1
    /\ IF drv = "report" /\ counter + 1 >= ReportCap
       THEN pc' = "idle" /\ UNCHANGED idx
       ELSE idx' = idx + 1 /\ UNCHANGED pc
    /\ audits' = Files(disk'.audits)
    /\ lastOp' = "get_report"
    /\ UNCHANGED <<drv, questions, items, processed, skipped, processed_count,
                   pendingData, runs, startFs, dispatched, outcomes, histVars, sessionVars,
                   preSave, ended, mergeVars, cleanLog, textVars>>

\* The pending urls of a retrieval stage are exhausted.
EndReport ==
    /\ pc = "fetch"
    /\ idx > Len(items)
    /\ pc' = "idle"
    /\ UNCHANGED <<fs, drv, loopVars, pendingData, runs, startFs, dispatched,
                   outcomes, histVars, sessionVars, preSave, ended, lastOp, inputVars,
                   mergeVars, stageVars>>

\* ------------------------------------------------------ question extraction
\* What get_question_content finds in a fetched answer: no question, or a
\* batch of questions.
FetchedBatches == {<<>>, <<"q1">>}

\* run_questions_generator_questions.get_pending_urls: the url of every
\* record of questions.json, whatever its questions_generated flag; none
\* when the file is missing or fails to load.
questions_get_pending_urls(F) ==
    IF F[QUESTIONS].kind # "list" THEN <<>>
    ELSE [k \in DOMAIN F[QUESTIONS].data |-> F[QUESTIONS].data[k].url]

\* The head of run_questions_generator_questions.main: the urls and, when
\* there is one, the one GetQuestions object of the run.
StartGetQuestions ==
    /\ pc = "idle"
    /\ drv = GET_QUESTIONS
    /\ runs < MaxRuns
    /\ runs' = runs + 1
    /\ items' = questions_get_pending_urls(fs)
    /\ idx' = 1
    /\ counter' = 0
    /\ pc' = "fetch"
    /\ lastOp' = "questions_run"
    /\ sessions' = IF items' = <<>> THEN 0 ELSE 1
    /\ summary' = FALSE
    /\ UNCHANGED <<fs, drv, processed, skipped, processed_count, pendingData,
                   startFs, dispatched, outcomes, histVars, preSave, ended,
                   inputVars, mergeVars, stageVars>>

\* mark_questions_generated(url) on file f: as mark_report_generated, for
\* the questions_generated flag of questions.json.
mark_questions_generated(f, url) == mark_report_generated(f, url)

\* get_questions(url) when the fetch brought an answer holding the
\* questions found: all_questions.json is loaded, extended and rewritten,
\* and the url is marked.
get_questions(url, found) ==
    /\ questions' = questions \o found
    /\ fs' = [fs EXCEPT ![QUESTIONS] = mark_questions_generated(@, url)]

\* get_questions(url) when the fetch raises: the except clause prints.
get_questions_fails(url) == UNCHANGED <<fs, questions>>

\* One iteration of the extraction loop: get_questions, then the counter
\* and the break at the cap.
GetQuestions ==
    /\ pc = "fetch"
    /\ drv = GET_QUESTIONS
    /\ idx <= Len(items)
    /\ \/ get_questions_fails(items[idx])
       \/ \E found \in FetchedBatches : get_questions(items[idx], found)
    /\ counter' = counter + 1
    /\ IF counter + 1 >= ReportCap
       THEN pc' = "idle" /\ UNCHANGED idx
       ELSE idx' = idx + 1 /\ UNCHANGED pc
    /\ lastOp' = "get_questions"
    /\ UNCHANGED <<drv, audits, items, processed, skipped, processed_count,
                   pendingData, runs, startFs, dispatched, outcomes, histVars,
                   sessionVars, preSave, ended, mergeVars, stageVars>>

Least(S) == CHOOSE m \in S : \A k \in S : m <= k

\* q.strip(): q without its leading and trailing white space.
strip(q) ==
    LET solid == {k \in DOMAIN q : q[k] # NEWLINE}
    IN IF solid = {} THEN <<>> ELSE SubSeq(q, Least(solid), Max(solid))

\* Mutant of findall: without re.DOTALL the group cannot span a line break.
RECURSIVE findall_NoDotAll(_, _)
findall_NoDotAll(t, from) ==
    LET starts == {p \in from..(Len(t) - 1) :
                      /\ t[p] = QUOTE
                      /\ t[p + 1] = FILE_MARK
                      /\ \E e \in (p + 2)..Len(t) :
                            /\ t[e] = QUOTE
                            /\ \A k \in (p + 2)..(e - 1) : t[k] \notin {QUOTE, NEWLINE}}
    IN IF starts = {} THEN <<>>
       ELSE LET p == Least(starts)
                e == Least({k \in (p + 2)..Len(t) : t[k] = QUOTE})
            IN <<SubSeq(t, p + 1, e - 1)>> \o findall_NoDotAll(t, e + 1)

\* re.findall(r'"(\[File:.*?)"', t, flags=re.DOTALL) from position from:
\* the leftmost double quote that is followed by [File: and, somewhere
\* after it, by a double quote; the group runs to the first such double
\* quote, and the search goes on after it.
RECURSIVE findall(_, _)
findall(t, from) ==
    LET starts == {p \in from..(Len(t) - 1) :
                      /\ t[p] = QUOTE
                      /\ t[p + 1] = FILE_MARK
                      /\ \E e \in (p + 2)..Len(t) : t[e] = QUOTE}
    IN IF starts = {} THEN <<>>
       ELSE LET p == Least(starts)
                e == Least({k \in (p + 2)..Len(t) : t[k] = QUOTE})
            IN <<SubSeq(t, p + 1, e - 1)>> \o findall(t, e + 1)

\* get_question_content(clip_board_content).
get_question_content(clip_board_content) ==
    LET found == findall(clip_board_content, 1)
    IN [k \in DOMAIN found |-> strip(found[k])]

\* get_question_content applied to one text.
Extract ==
    /\ drv = "extract"
    /\ ~extracted.done
    /\ extracted' = [done |-> TRUE, items |-> get_question_content(text)]
    /\ UNCHANGED <<fs, pc, drv, loopVars, pendingData, runs, startFs, dispatched,
                   outcomes, histVars, sessionVars, preSave, ended, lastOp, inputVars,
                   mergeVars, disk, cleanLog, prevDisk, lastFetch, text,
                   verdict>>

\* ----------------------------------------------------------------- cleanup
\* Mutant of Truncated: reversed_collections.json is left as it is.
Truncated_SkipsReversed(F) ==
    [n \in StoreNames |->
        IF n \in {COLLECTIONS, VALIDATED} THEN ListFile(<<>>) ELSE F[n]]

\* Step 3 of clean_up: json.dump([]) into each of json_files.
Truncated(F) ==
    [n \in StoreNames |->
        IF n \in {COLLECTIONS, VALIDATED, REVERSED} THEN ListFile(<<>>) ELSE F[n]]

\* How a clean_up call ends: the report directories and stores it leaves
\* and what is recorded of it.  Every exception lands in the one except
\* clause of clean_up, which prints it; clean_up then returns.
CleanUpEnds(outcome, newDisk, newFs) ==
    /\ disk' = newDisk
    /\ fs' = newFs
    /\ cleanLog' = Append(cleanLog, outcome)
    /\ lastOp' = IF outcome = "ok" THEN "clean_up" ELSE "clean_up_error"

\* os.makedirs("audits") raises: nothing has been done yet.
MakedirsFails ==
    /\ ~disk.audits.exists
    /\ CleanUpEnds("makedirs", disk, fs)

\* os.remove raises on one file of audits/, after the files of D (those
\* os.listdir gave before it) were deleted.
RemoveFails ==
    /\ disk.audits.exists
    /\ \E f \in Files(disk.audits) : \E D \in SUBSET (Files(disk.audits) \ {f}) :
          CleanUpEnds("remove",
              [disk EXCEPT !.audits =
                  Dir([n \in Files(disk.audits) \ D |-> disk.audits.body[n]])],
              fs)

\* shutil.move raises on one file of validated/, after audits/ was emptied
\* (or created) and the files of M were moved.
MoveFails ==
    /\ disk.validated.exists
    /\ \E f \in Files(disk.validated) : \E M \in SUBSET (Files(disk.validated) \ {f}) :
          CleanUpEnds("move",
              [audits |-> Dir([n \in M |-> disk.validated.body[n]]),
               validated |->
                  Dir([n \in Files(disk.validated) \ M |-> disk.validated.body[n]])],
              fs)

\* Mutant of CleanUpSucceeds: step 1 is left out, the files of audits/ stay
\* unless a moved file takes their name.
CleanUpSucceeds_KeepsAudits ==
    CleanUpEnds("ok",
        [audits |->
            Dir([n \in Files(disk.audits) \cup Files(disk.validated) |->
                    IF n \in Files(disk.validated) THEN disk.validated.body[n]
                    ELSE disk.audits.body[n]]),
         validated |-> IF disk.validated.exists
                       THEN Dir([n \in {} |-> <<>>]) ELSE NoDir],
        Truncated(fs))

\* No step raises: audits/ is emptied or created, every file of validated/
\* is moved into it, the three stores are truncated.
CleanUpSucceeds ==
    CleanUpEnds("ok",
        [audits |-> Dir([n \in Files(disk.validated) |-> disk.validated.body[n]]),
         validated |-> IF disk.validated.exists
                       THEN Dir([n \in {} |-> <<>>]) ELSE NoDir],
        Truncated(fs))

\* clean_up().
clean_up ==
    /\ pc = "idle"
    /\ drv = "clean_up"
    /\ Len(cleanLog) < MaxCleanups
    /\ prevDisk' = disk
    /\ \/ MakedirsFails
       \/ RemoveFails
       \/ MoveFails
       \/ CleanUpSucceeds
    /\ audits' = Files(disk'.audits)
    /\ UNCHANGED <<pc, drv, questions, runVars, mergeVars, lastFetch, textVars>>

\* ----------------------------------------------------------- specification
Next ==
    \/ \E d \in Drivers : StartRun(d)
    \/ EndOfList
    \/ Skip
    \/ Dispatch
    \/ BotInitFails
    \/ AgentFails
    \/ \E u \in Urls : AgentReturns(u)
    \/ SaveRaises
    \/ Dump
    \/ Kill
    \/ merge_validated_into_collections
    \/ \E d \in ReportStages : StartReport(d)
    \/ GetReport
    \/ EndReport
    \/ MarkReportGenerated
    \/ StartGetQuestions
    \/ GetQuestions
    \/ ApplyFilters
    \/ Extract
    \/ clean_up

Spec == Init /\ [][Next]_vars

\* ============================================================ properties
\* Vocabulary of the properties, stated on the files rather than on the
\* drivers' variables.
Min(a, b) == IF a <= b THEN a ELSE b

\* The records a well-formed store holds (none for any other file).
StoreRecords(F, n) == IF F[n].kind = "list" THEN F[n].data ELSE <<>>

\* The identity key of a record in the store of driver d.
IdentityKey(d, r) == IF d = "validate" THEN r.filename ELSE r.question

\* The stores whose records count as done for driver d.
RelevantStores(d) ==
    CASE d = "reversed" -> {COLLECTIONS, REVERSED}
      [] d = "generate" -> {QUESTIONS}
      [] d = "validate" -> {VALIDATED}

\* The identity keys recorded in the relevant stores of driver d.
DoneKeys(d, F) ==
    {IdentityKey(d, r) :
        r \in UNION {Range(StoreRecords(F, n)) : n \in RelevantStores(d)}}
    \ {Absent}

\* The identity keys recorded in the owning store of driver d.
OwnKeys(d, F) ==
    {IdentityKey(d, r) : r \in Range(StoreRecords(F, OwningStore(d)))}

\* The items of its that are pending against the stores F, in order.
PendingList(d, its, F) == SelectSeq(its, LAMBDA x : x \notin DoneKeys(d, F))

\* The pending items among those the loop has visited so far.
PendingVisited == PendingList(drv, SubSeq(items, 1, visited), startFs)

\* Records the current/last run has added to its owning store.
Appended ==
    Len(StoreRecords(fs, OwningStore(drv)))
        - Len(StoreRecords(startFs, OwningStore(drv)))

OkCount == Cardinality({k \in DOMAIN outcomes : outcomes[k] = "ok"})
\* Dispatches that wrote no record: the Agent failed or the save raised.
FailCount == Cardinality({k \in DOMAIN outcomes : outcomes[k] # "ok"})

RunEnded == pc = "idle" /\ ended = "normal"

\* C1: after a completed dispatch run no two records of the owning store
\* share an identity key, and the run added no record for an item that was
\* recorded when it started (so a second run over the same items adds
\* nothing for what the first run recorded).
C1_IdempotentRuns ==
    RunEnded =>
        LET recs == StoreRecords(fs, OwningStore(drv))
        IN /\ \A a, b \in DOMAIN recs :
                  a # b => IdentityKey(drv, recs[a]) # IdentityKey(drv, recs[b])
           /\ \A k \in DOMAIN dispatched :
                  dispatched[k] \notin OwnKeys(drv, startFs)

\* C2 as stated: when the Agent fails on item k of a run, the items before k
\* have records and the items from k on (k included) are still pending when
\* the run has ended.
C2_FailedAndLaterStayPending ==
    RunEnded =>
        \A k \in DOMAIN outcomes :
            (outcomes[k] = "fail" /\ \A j \in 1..(k - 1) : outcomes[j] = "ok") =>
                /\ \A j \in 1..(k - 1) : dispatched[j] \in OwnKeys(drv, fs)
                /\ \A j \in k..Len(dispatched) :
                       dispatched[j] \notin DoneKeys(drv, fs)

\* C2 amended: in every run the driver hands to the Agent only items that
\* were pending when the run started, in list order (all the pending items
\* it has visited, when no bot construction failed), at most Cap of them;
\* and when a run has ended, every item whose dispatch succeeded has a
\* record (whether it came before or after a failed one), while an item
\* whose dispatch failed has none unless another dispatch of the same key
\* succeeded, so that it is pending for the next run.
C2_Resumable ==
    /\ Len(dispatched) <= Cap
    /\ Len(PendingVisited) = Len(dispatched) + Len(botFailed)
    /\ botFailed = <<>> => dispatched = PendingVisited
    /\ RunEnded =>
          \A k \in DOMAIN outcomes :
              /\ outcomes[k] = "ok" => dispatched[k] \in OwnKeys(drv, fs)
              /\ (/\ outcomes[k] = "fail"
                  /\ \A j \in DOMAIN outcomes :
                         outcomes[j] = "ok" => dispatched[j] # dispatched[k])
                 => dispatched[k] \notin DoneKeys(drv, fs)

\* Witness of C2: a second question-generation run that dispatches the item
\* the first run failed on ("lib.rs", first in the list, has no record
\* although the later "auction.rs" has one) and then the next pending item.
C2_Witness ==
    /\ RunEnded
    /\ drv = "generate"
    /\ runs = 2
    /\ OwnKeys(drv, startFs) = {"auction.rs"}
    /\ dispatched = <<"lib.rs", "utils.ts">>
    /\ outcomes = <<"ok", "ok">>

\* C3: when ask_question fails for an item, the store files are unchanged,
\* the driver goes on to the next pending item of the same run (if there is
\* one), and the failed item is pending again for the next run.
C3_FailureLeavesItemPending ==
    [][(pc = "ask" /\ outcomes' = Append(outcomes, "fail")) =>
          /\ fs' = fs
          /\ (\E j \in (idx + 1)..Len(items) : items[j] \notin processed)
                 => pc' = "loop"
          /\ items[idx] \notin DoneKeys(drv, fs')]_vars

\* C4 as stated: a completed run appends exactly min(m, Cap) records, m
\* being the number of pending items at the start of the run.
C4_ExactBatch ==
    RunEnded => Appended = Min(Len(PendingList(drv, items, startFs)), Cap)

\* C4 amended: a completed run appends one record per successful dispatch,
\* never more than min(m, Cap), and exactly min(m, Cap) when no dispatch of
\* the run failed.
C4_BatchBound ==
    RunEnded =>
        LET m == Len(PendingList(drv, items, startFs))
        IN /\ Appended = OkCount
           /\ Appended <= Min(m, Cap)
           /\ (FailCount = 0 /\ botFailed = <<>>) => Appended = Min(m, Cap)

\* Witness of C4: a completed run that had more than Cap pending items and
\* appended exactly Cap records.
C4_Witness ==
    /\ RunEnded
    /\ Len(PendingList(drv, items, startFs)) > Cap
    /\ FailCount = 0
    /\ Appended = Cap

\* C5: in any run at most Cap items are dispatched to the Agent, and none
\* of them has its identity key recorded in a relevant store at the start
\* of the run.
C5_CapAndSkip ==
    /\ Len(dispatched) <= Cap
    /\ \A k \in DOMAIN dispatched : dispatched[k] \notin DoneKeys(drv, startFs)

\* Witness of C5: a run that skipped a recorded item and stopped at the cap.
C5_Witness ==
    /\ RunEnded
    /\ skipped > 0
    /\ Len(dispatched) = Cap

\* C6: when the process is killed during a dispatch run, every item whose
\* ask_question had completed successfully before the kill still has its
\* record in the store: at most the in-flight item is lost.
C6_KillLosesAtMostInFlight ==
    ended = "killed" =>
        \A k \in DOMAIN outcomes :
            outcomes[k] = "ok" => dispatched[k] \in OwnKeys(drv, fs)

\* The questions some record of store n held when the run started.
QuestionsIn(n) == {r.question : r \in Range(StoreRecords(startFs, n))}

MergeStep == merges' = merges + 1

\* C8: a merge never removes or reorders a record collections.json held
\* (the old array is a prefix of the new one), and a merge that directly
\* follows a completed merge of the same inputs adds nothing.
C8_MergeIdempotent ==
    [][MergeStep =>
          /\ IsPrefix(StoreRecords(fs, COLLECTIONS), StoreRecords(fs', COLLECTIONS))
          /\ lastOp = "merge" => (fs' = fs /\ added_count' = 0)]_vars

\* Witness of C8: a second merge right after a merge that added records
\* (both merges follow the only run, which filled the reversed store).
C8_Witness ==
    /\ lastOp = "merge"
    /\ merges = 2
    /\ runs = 1
    /\ added_count = 0
    /\ prevCollections = fs[COLLECTIONS]
    /\ StoreRecords(fs, COLLECTIONS) # <<>>

\* The identity key the merger is specified to use: url, else question,
\* else filename, first non-empty.
MergeKey(r) ==
    IF r.url # Absent THEN r.url
    ELSE IF r.question # Absent THEN r.question
    ELSE r.filename

\* The positions of B whose record the merge must append to A.
KeptPositions(A, B) ==
    {j \in DOMAIN B :
        /\ MergeKey(B[j]) # Absent
        /\ \A a \in DOMAIN A : MergeKey(A[a]) # MergeKey(B[j])
        /\ \A k \in 1..(j - 1) : MergeKey(B[k]) # MergeKey(B[j])}

\* The records of B at the kept positions, in the order of B.
KeptRecords(A, B) ==
    LET pos == SelectSeq([j \in 1..Len(B) |-> j],
                         LAMBDA j : j \in KeptPositions(A, B))
    IN [n \in 1..Len(pos) |-> B[pos[n]]]

\* C9: after a merge, collections.json is its previous array followed by
\* the kept records of reversed_collections.json, and added_count is the
\* number of records appended.
C9_MergeResult ==
    lastOp = "merge" =>
        LET A == StoreRecords([fs EXCEPT ![COLLECTIONS] = prevCollections],
                              COLLECTIONS)
            B == StoreRecords(fs, REVERSED)
        IN /\ fs[COLLECTIONS] = ListFile(A \o KeptRecords(A, B))
           /\ added_count = Len(KeptRecords(A, B))

\* Witness of C9: the example A = [{url: x}], B = [{url: x}, {url: y}]:
\* one record appended, the duplicate skipped.
C9_Witness ==
    /\ lastOp = "merge"
    /\ Len(StoreRecords(fs, REVERSED)) = 2
    /\ prevCollections = ListFile(<<fs[REVERSED].data[1]>>)
    /\ fs[REVERSED].data[1].url # fs[REVERSED].data[2].url
    /\ fs[COLLECTIONS] = fs[REVERSED]
    /\ added_count = 1

\* C10: after a merge no two records of collections.json share the Question
\* identity key (the exact question text).
C10_UniqueQuestions ==
    lastOp = "merge" =>
        LET recs == StoreRecords(fs, COLLECTIONS)
        IN \A a, b \in DOMAIN recs :
               a # b => recs[a].question # recs[b].question

\* C11: a merge never changes reversed_collections.json: the file is the
\* same before and after every step of merge_validated_into_collections,
\* whether the merge wrote collections.json, returned early or raised.
C11_MergeKeepsSecondary ==
    [][MergeStep => fs'[REVERSED] = fs[REVERSED]]_vars

\* Witness of C11: a merge that appended records to collections.json and
\* left the records it read in reversed_collections.json.
C11_Witness ==
    /\ lastOp = "merge"
    /\ added_count > 0
    /\ Len(StoreRecords(fs, REVERSED)) = added_count
    /\ prevCollections.kind = "missing"

\* C12: every operation that reads a store reads a missing, empty or
\* unparsable file as the empty record sequence and goes on with it: the
\* append saves the records read plus the new one, the pending-set
\* computation takes the keys of the records read, and the merge writes the
\* records read from collections.json followed by the kept records of
\* reversed_collections.json.
C12_LoadTolerant ==
    [][/\ (pc = "ask" /\ pc' = "dump") =>
            \E u \in Urls :
                pendingData' = Append(StoreRecords(fs, OwningStore(drv)),
                                      NewRecord(drv, items[idx], u))
       /\ (pc = "idle" /\ pc' = "loop") => processed' = DoneKeys(drv, fs)
       /\ MergeStep =>
            LET A == StoreRecords(fs, COLLECTIONS)
                B == StoreRecords(fs, REVERSED)
            IN StoreRecords(fs', COLLECTIONS) = A \o KeptRecords(A, B)]_vars

\* A step in which save_to_* completes its dump.
SaveCompletes == pc = "dump" /\ Len(outcomes') = Len(outcomes) + 1

\* C13: when an append completes, the store file is a well-formed JSON
\* array; if the save found the file malformed, the array holds exactly the
\* one new record.
C13_AppendWellFormed ==
    [][SaveCompletes =>
          LET f == fs'[OwningStore(drv)]
          IN /\ f.kind = "list"
             /\ f.data # <<>>
             /\ IdentityKey(drv, f.data[Len(f.data)]) = items[idx]
             /\ preSave.kind = "malformed" => Len(f.data) = 1]_vars

\* Witness of C13: a save that found its store malformed (a killed dump
\* of the run before) has completed, and the store holds one record.
C13_Witness ==
    /\ pc # "dump"
    /\ preSave.kind = "malformed"
    /\ outcomes # <<>>
    /\ outcomes[Len(outcomes)] = "ok"
    /\ fs[OwningStore(drv)].kind = "list"
    /\ Len(fs[OwningStore(drv)].data) = 1

\* A step of clean_up, and what it means for its outcome.
CleanUpStep == Len(cleanLog') = Len(cleanLog) + 1
NoFiles(dir) == Files(dir) = {}
StoresEmptied(F) ==
    \A n \in {COLLECTIONS, VALIDATED, REVERSED} : F[n] = ListFile(<<>>)

\* C14: after a clean_up that completed without error, every file of
\* audits/ is a file that was in validated/ (none of the old files is
\* left), every file that was in validated/ is in audits/ under its name
\* with its content, validated/ holds no files, the three stores hold an
\* empty array, and questions.json and all_questions.json are as before.
C14_CleanUpResult ==
    [][CleanUpStep /\ lastOp' = "clean_up" =>
          /\ \A n \in Files(disk'.audits) : n \in Files(disk.validated)
          /\ \A n \in Files(disk.validated) :
                /\ n \in Files(disk'.audits)
                /\ disk'.audits.body[n] = disk.validated.body[n]
          /\ NoFiles(disk'.validated)
          /\ StoresEmptied(fs')
          /\ fs'[QUESTIONS] = fs[QUESTIONS]
          /\ questions' = questions]_vars

\* Witness of C14: a clean_up that found two old reports in audits/ and
\* one validated report of the same name as one of them, and non-empty
\* stores, has completed.
C14_Witness ==
    /\ lastOp = "clean_up"
    /\ Cardinality(Files(prevDisk.audits)) = 2
    /\ Cardinality(Files(prevDisk.validated)) = 1
    /\ Files(prevDisk.validated) \subseteq Files(prevDisk.audits)
    /\ \E n \in Files(prevDisk.validated) :
          prevDisk.validated.body[n] # prevDisk.audits.body[n]
    /\ disk.audits.body = prevDisk.validated.body
    /\ fs[COLLECTIONS] = ListFile(<<>>)
    /\ fs[QUESTIONS].kind = "list"
    /\ fs[QUESTIONS].data # <<>>

C16_BestEffort ==
    [][CleanUpStep =>
          LET outcome == cleanLog'[Len(cleanLog')]
          IN /\ outcome \in {"remove", "move"} =>
                  /\ Cardinality(Files(disk'.validated)) <= 1
                  /\ StoresEmptied(fs')
             /\ outcome = "makedirs" =>
                  /\ disk' = disk
                  /\ fs' = fs]_vars

\* A step of get_report, and the files it added to the stage's directory.
GetReportStep ==
    drv \in ReportStages /\ pc = "fetch" /\ counter' = counter + 1
NewReports == Files(disk'[ReportDir(drv)]) \ Files(disk[ReportDir(drv)])
FetchedPositive == ~lastFetch.failed /\ StageFilter(drv, lastFetch.text)

\* C17: the report a get_report step writes is named audit_<n>.md with
\* n = 1 when the directory is missing or holds no audit_<n>.md, and else
\* the largest n present plus 1; it is a name the directory did not hold.
C17_NextReportNumber ==
    [][GetReportStep /\ FetchedPositive' =>
          LET dir == disk[ReportDir(drv)]
              present == {k \in DOMAIN ReportNames : ReportNames[k] \in Files(dir)}
              n == IF present = {} THEN 1 ELSE Max(present) + 1
          IN /\ NewReports = {ReportNames[n]}
             /\ ReportNames[n] \notin Files(dir)]_vars

\* Witness of C17: with audit_1.md and audit_3.md present, the report
\* stage has written audit_4.md.
C17_Witness ==
    /\ lastOp = "get_report"
    /\ drv = "report"
    /\ Files(prevDisk.audits) = {"audit_1.md", "audit_3.md"}
    /\ Files(disk.audits) = {"audit_1.md", "audit_3.md", "audit_4.md"}

\* C18: a get_report step adds a file to the stage's report directory
\* exactly when the fetch succeeded and the filter accepts the fetched
\* text, and the file holds that text; and no step other than clean_up
\* removes a report file or changes its content.
C18_ReportIffPositive ==
    [][/\ GetReportStep =>
            /\ NewReports # {} <=> FetchedPositive'
            /\ \A n \in NewReports :
                  disk'[ReportDir(drv)].body[n] = lastFetch'.text
       /\ ~CleanUpStep =>
            \A d \in {"audits", "validated"} : \A n \in Files(disk[d]) :
                /\ n \in Files(disk'[d])
                /\ disk'[d].body[n] = disk[d].body[n]]_vars

\* Witness of C18: a get_report whose text the filter accepted has added
\* one report, holding that text, to a directory that held reports, and
\* these are still there.
C18_Witness ==
    /\ lastOp = "get_report"
    /\ FetchedPositive
    /\ Cardinality(Files(prevDisk[ReportDir(drv)])) = 2
    /\ \A n \in Files(prevDisk[ReportDir(drv)]) :
          /\ n \in Files(disk[ReportDir(drv)])
          /\ disk[ReportDir(drv)].body[n] = <<"x", "x">>
    /\ \E n \in Files(disk[ReportDir(drv)]) \ Files(prevDisk[ReportDir(drv)]) :
          disk[ReportDir(drv)].body[n] = lastFetch.text

\* Whether the literal lit is a substring of the text t.
Occurs(lit, t) ==
    \E i \in 1..Len(t) :
        i + Len(lit) - 1 <= Len(t) /\ SubSeq(t, i, i + Len(lit) - 1) = lit

MarkedLines(t) ==
    {p \in 1..(Len(t) - 1) :
        /\ p = 1 \/ t[p - 1] = NEWLINE
        /\ t[p] = QUOTE
        /\ t[p + 1] = FILE_MARK
        /\ \E e \in (p + 2)..Len(t) :
              /\ t[e] = QUOTE
              /\ \A k \in (p + 2)..(e - 1) : t[k] # NEWLINE}

\* C20 as claimed: get_question_content returns one item for every line
\* that begins with a quoted [File: marker, and only for those.
C20_OneItemPerMarkedLine ==
    extracted.done => Len(extracted.items) = Cardinality(MarkedLines(text))

\* Where a quoted [File: string opens in t, and where it closes.
Opens(t, p) ==
    /\ p < Len(t)
    /\ t[p] = QUOTE
    /\ t[p + 1] = FILE_MARK
    /\ \E e \in (p + 2)..Len(t) : t[e] = QUOTE
CloseOf(t, p) == Least({e \in (p + 2)..Len(t) : t[e] = QUOTE})

\* C20 as amended: get_question_content returns one item for every quoted
\* string that opens with [File:, wherever on a line it opens and whether
\* or not it runs over line breaks, found from left to right without
\* overlap (a string opens at a double quote followed by [File: that lies
\* after the close of every string found before it, and closes at the next
\* double quote); the item is the text between the quotes without its
\* trailing white space; items are in text order, repeated items are kept,
\* and a text with no such string yields the empty sequence.
C20_QuotedStrings ==
    extracted.done =>
        \E S \in SUBSET (DOMAIN text) :
            /\ \A p \in DOMAIN text :
                  p \in S <=> /\ Opens(text, p)
                              /\ \A q \in S : q < p => CloseOf(text, q) < p
            /\ LET at == SelectSeq([i \in 1..Len(text) |-> i], LAMBDA i : i \in S)
               IN /\ Len(extracted.items) = Len(at)
                  /\ \A k \in DOMAIN at :
                        LET raw == SubSeq(text, at[k] + 1, CloseOf(text, at[k]) - 1)
                        IN /\ extracted.items[k] # <<>>
                           /\ IsPrefix(extracted.items[k], raw)
                           /\ extracted.items[k][Len(extracted.items[k])] # NEWLINE
                           /\ \A j \in (Len(extracted.items[k]) + 1)..Len(raw) :
                                 raw[j] = NEWLINE

\* Witness of C20: two equal items from one line, the second from a quoted
\* string that opens in the middle of the line.
C20_Witness ==
    /\ extracted.done
    /\ Len(extracted.items) = 2
    /\ extracted.items[1] = extracted.items[2]
    /\ Cardinality(MarkedLines(text)) = 1
    /\ \A k \in DOMAIN text : text[k] # NEWLINE

\* ------------------------------------------------------------ C21 .. C30
\* A run of a driver script is over.
RunOver == pc = "idle" /\ runs > 0

\* C21: a driver run opens one Agent session, uses it for every item and
\* quits it on every exit path, so that no run is over with a session it
\* opened still open.
C21_NoSessionLeftOpen == RunOver => sessions = 0

\* C22: every run of a dispatch driver that is not killed from outside
\* ends by printing its summary lines (skipped, processed, total), however
\* many items failed and whether or not an exception reached the top-level
\* except clause.
C22_SummaryPrinted ==
    (RunOver /\ drv \in Drivers /\ ended # "killed") => summary

\* C23: no stage makes more Agent calls in one invocation than its cap:
\* Cap dispatches in a run of a dispatch driver, ReportCap fetches in a run
\* of a retrieval stage.
C23_AgentCallsCapped ==
    /\ drv \in Drivers => Len(dispatched) <= Cap
    /\ drv \in ReportStages => counter <= ReportCap

\* A step of the extraction loop: one get_questions call.
GetQuestionsStep == drv = GET_QUESTIONS /\ pc = "fetch" /\ counter' = counter + 1

\* C24: the question extraction stage fetches only records of
\* questions.json whose questions_generated flag is not set, so a run that
\* finds every record flagged leaves all_questions.json as it was.
C24_OnlyPendingFetched ==
    [][GetQuestionsStep =>
          /\ ~fs[QUESTIONS].data[idx].generated
          /\ (\A k \in DOMAIN fs[QUESTIONS].data : fs[QUESTIONS].data[k].generated)
                => questions' = questions]_vars

\* C25: a run of a dispatch driver that ends normally has had Cap
\* successful dispatches or has visited every item that was pending when
\* it started: a failed dispatch does not count toward the cap.
C25_EndsAtCapOrExhausted ==
    (RunEnded /\ drv \in Drivers) =>
        \/ OkCount = Cap
        \/ PendingVisited = PendingList(drv, items, startFs)

\* A step that runs mark_report_generated to its end: the call on its own,
\* or a get_report whose fetch did not raise.
MarkStep ==
    \/ drv = MARK /\ runs' = runs + 1
    \/ GetReportStep /\ ~lastFetch'.failed
MarkedStore == IF drv = MARK THEN COLLECTIONS ELSE ReportStore(drv)

\* C26: mark_report_generated(url) sets the generated flag of the first
\* record whose url is the argument and changes nothing else: the other
\* records, the order of the records and the other fields of that record
\* are as before; when no record has the url, when the url is empty or
\* when the store does not load, the store is unchanged; the call always
\* returns.
C26_MarkFrame ==
    [][MarkStep =>
          LET url == lastFetch'.url
              f == fs[MarkedStore]
              g == fs'[MarkedStore]
              hits == {k \in DOMAIN f.data : f.data[k].url = url}
          IN /\ \A n \in StoreNames \ {MarkedStore} : fs'[n] = fs[n]
             /\ IF url # Absent /\ f.kind = "list" /\ hits # {}
                THEN /\ g.kind = "list"
                     /\ DOMAIN g.data = DOMAIN f.data
                     /\ \A k \in DOMAIN f.data :
                           IF k = Least(hits)
                           THEN /\ g.data[k].generated
                                /\ g.data[k].url = f.data[k].url
                                /\ g.data[k].question = f.data[k].question
                                /\ g.data[k].filename = f.data[k].filename
                           ELSE g.data[k] = f.data[k]
                ELSE g = f]_vars

\* Witness of C26: a call on its own has flagged the first of two records
\* with the same url and left the second unflagged.
C26_Witness ==
    /\ drv = MARK
    /\ lastOp = "mark"
    /\ fs[COLLECTIONS].kind = "list"
    /\ Len(fs[COLLECTIONS].data) = 2
    /\ \A k \in 1..2 : fs[COLLECTIONS].data[k].url = lastFetch.url
    /\ fs[COLLECTIONS].data[1].generated
    /\ ~fs[COLLECTIONS].data[2].generated

\* Second witness of C26: calls with a url no record has, or with the empty
\* url, on a store holding an unflagged record.
C26_NoMatchWitness ==
    /\ drv = MARK
    /\ lastOp = "mark"
    /\ runs = 2
    /\ lastFetch.url = Absent
    /\ fs[COLLECTIONS].kind = "list"
    /\ Len(fs[COLLECTIONS].data) = 1
    /\ ~fs[COLLECTIONS].data[1].generated

\* The generated flags of the records of a store file, in order.
Flags(f) == [k \in DOMAIN f.data |-> f.data[k].generated]
StartReportStep == drv \in ReportStages /\ pc = "idle" /\ pc' = "fetch"

\* C27: the record a dispatch appends has its generated flag unset; in a
\* report stage a flag is set only by a get_report step whose fetch of
\* that record's url did not raise (whatever the filter said of the text),
\* and a set flag is never unset; a get_report whose fetch raised changes
\* no store, and the next run of the stage has among its pending urls
\* every url that no flagged record carries.
C27_FlagLifecycle ==
    [][/\ SaveCompletes =>
              LET data == fs'[OwningStore(drv)].data
              IN fs'[OwningStore(drv)].kind = "list" => ~data[Len(data)].generated
       /\ drv \in ReportStages =>
              LET f == fs[ReportStore(drv)]
                  g == fs'[ReportStore(drv)]
              IN /\ g.kind = f.kind
                 /\ DOMAIN g.data = DOMAIN f.data
                 /\ \A k \in DOMAIN f.data :
                       /\ f.data[k].generated => g.data[k].generated
                       /\ (~f.data[k].generated /\ g.data[k].generated) =>
                              /\ GetReportStep
                              /\ ~lastFetch'.failed
                              /\ lastFetch'.url = f.data[k].url
                 /\ (GetReportStep /\ lastFetch'.failed) => fs' = fs
                 /\ StartReportStep =>
                       \A k \in DOMAIN f.data :
                           (\A j \in DOMAIN f.data :
                                f.data[j].url = f.data[k].url => ~f.data[j].generated)
                               => f.data[k].url \in Range(items')]_vars

\* Witness of C27: the fetch of a url raised in the first run of a report
\* stage, no record with that url is flagged, and the second run has the
\* url among its pending urls although another url was marked.
C27_Witness ==
    /\ drv \in ReportStages
    /\ runs = 2
    /\ pc = "fetch"
    /\ lastFetch.failed
    /\ lastFetch.url \in Range(items)
    /\ \E k \in DOMAIN fs[ReportStore(drv)].data :
          fs[ReportStore(drv)].data[k].generated

C29_MergeOverBrokenPrimary ==
    [][(/\ MergeStep
        /\ fs[COLLECTIONS].kind # "list"
        /\ fs[REVERSED].kind = "list") =>
           fs'[COLLECTIONS] = ListFile(KeptRecords(<<>>, fs[REVERSED].data))]_vars

\* File g holds the records of file f, in order, at its head.
Preserved(f, g) == f.kind = "list" => (g.kind = "list" /\ IsPrefix(f.data, g.data))
\* File g is file f with at most one generated flag set more.
FlagFlipped(f, g) ==
    /\ g.kind = "list"
    /\ DOMAIN g.data = DOMAIN f.data
    /\ \A k \in DOMAIN f.data : g.data[k] \in {f.data[k], [f.data[k] EXCEPT !.generated = TRUE]}
    /\ Cardinality({k \in DOMAIN f.data : g.data[k] # f.data[k]}) <= 1
AuditStores == {COLLECTIONS, REVERSED, VALIDATED}

\* C30: a store that is a well-formed array keeps its records, in their
\* order, through every operation but the cleanup: a completed save has
\* added one record at the end of what it found, a merge has added records
\* at the end of collections.json and left the other stores alone, a
\* get_report or mark has set the generated flag of at most one record of
\* its store, and no other step outside a save changes a store.
C30_RecordsPreserved ==
    [][~CleanUpStep =>
          /\ SaveCompletes =>
                /\ Preserved(preSave, fs'[OwningStore(drv)])
                /\ Len(fs'[OwningStore(drv)].data) = Len(LoadForAppend(preSave)) + 1
                /\ \A n \in StoreNames \ {OwningStore(drv)} : fs'[n] = fs[n]
          /\ MergeStep =>
                /\ Preserved(fs[COLLECTIONS], fs'[COLLECTIONS])
                /\ \A n \in StoreNames \ {COLLECTIONS} : fs'[n] = fs[n]
          /\ MarkStep =>
                /\ fs[MarkedStore].kind = "list" =>
                       FlagFlipped(fs[MarkedStore], fs'[MarkedStore])
                /\ \A n \in StoreNames \ {MarkedStore} : fs'[n] = fs[n]
          /\ (pc \notin {"ask", "dump"} /\ ~MergeStep /\ ~MarkStep) =>
                \A n \in AuditStores : fs'[n] = fs[n]]_vars

\* Witness of C30: a second merge has added a record at the end of a
\* collections.json that held one, after a save that added a record at the
\* end of a reversed_collections.json that held one.
C30_Witness ==
    /\ merges = 2
    /\ lastOp = "merge"
    /\ prevCollections.kind = "list"
    /\ Len(prevCollections.data) = 1
    /\ Len(fs[COLLECTIONS].data) = 2
    /\ preSave.kind = "list"
    /\ Len(preSave.data) = 1
    /\ IsPrefix(preSave.data, fs[REVERSED].data)

\* ------------------------------------------------------------ C31 .. C36
\* run_validator.get_remaining_count: the number of audit files less the
\* number of processed filenames.
get_remaining_count(dir, F) ==
    Len(get_audits_reports(dir)) - Cardinality(load_processed_reports(F))

\* The audit files the validation driver would still dispatch.
StillToValidate(dir, F) ==
    {n \in Range(get_audits_reports(dir)) : n \notin load_processed_reports(F)}

\* One clean_up call has been made on stores and directories in which
\* every file validated.json names was in audits/.
AfterFirstCleanUp ==
    /\ Len(cleanLog) = 1
    /\ load_processed_reports(startFs) \subseteq Files(prevDisk.audits)

\* C31: in every state the pipeline's operations reach (a validation run
\* under way or over, a cleanup call made), get_remaining_count is not
\* negative and is the number of files of audits/ that have no record in
\* validated.json, which is the number of files the validation driver
\* would still dispatch.
C31_RemainingCount ==
    ((drv = "validate" /\ runs > 0) \/ AfterFirstCleanUp) =>
        /\ get_remaining_count(audits, fs) >= 0
        /\ get_remaining_count(audits, fs) =
               Cardinality(StillToValidate(audits, fs))

C33_FetchedOnce ==
    [][(drv = "report" /\ GetReportStep /\ ~lastFetch'.failed) =>
          \A k \in DOMAIN fs[COLLECTIONS].data :
              fs[COLLECTIONS].data[k].url = lastFetch'.url
                  => ~fs[COLLECTIONS].data[k].generated]_vars

\* The urls the report stage fetches when it is run on the files F, D.
ReportWouldFetch(F, D) == Range(get_pending_urls("report", F, D))
WithUrl(recs, u) == SelectSeq(recs, LAMBDA r : r.url = u)

\* C34: the report stage fetches only urls of records of collections.json,
\* so a record that is only in reversed_collections.json is not fetched;
\* and after a merge pass every record of reversed_collections.json is in
\* collections.json, unflagged, with its url pending for the next report
\* run, unless collections.json held a record with the same url before
\* the pass, in which case the pass adds no record with that url.
C34_MergedThenPending ==
    [][/\ ReportWouldFetch(fs, disk) \subseteq
              {r.url : r \in Range(StoreRecords(fs, COLLECTIONS))}
       /\ (MergeStep /\ fs[REVERSED].kind = "list") =>
              \A k \in DOMAIN fs[REVERSED].data :
                  LET r == fs[REVERSED].data[k]
                      before == StoreRecords(fs, COLLECTIONS)
                      after == StoreRecords(fs', COLLECTIONS)
                  IN IF \E c \in Range(before) : c.url = r.url
                     THEN WithUrl(after, r.url) = WithUrl(before, r.url)
                     ELSE /\ r \in Range(after)
                          /\ ~r.generated
                          /\ r.url \in ReportWouldFetch(fs', disk')]_vars

\* A step in which ask_question, having obtained the url, calls save_to_*.
SaveAttempt ==
    /\ pc = "ask"
    /\ \/ pc' = "dump"
       \/ outcomes' = Append(outcomes, "unsaved")

\* C35: an append to a store that holds valid JSON other than an array
\* treats the store as corrupt: the save goes on with the empty array and
\* writes the well-formed array holding the new record.
C35_NonArrayStoreReplaced ==
    [][(SaveAttempt /\ fs[OwningStore(drv)].kind = "nonarray") =>
          /\ pc' = "dump"
          /\ \E u \in Urls :
                pendingData' = <<NewRecord(drv, items[idx], u)>>]_vars

\* C36: when a dispatch run prints its summary, the "newly processed"
\* count is the number of records the run has appended to its owning
\* store, and skipped plus newly processed is at most the number of items.
C36_SummaryCounts ==
    (summary /\ drv \in Drivers) =>
        /\ processed_count = Appended
        /\ skipped + processed_count <= Len(items)
====
